---------------------------- MODULE Spec2Model ----------------------------
(***************************************************************************)
(* ciftify_meants: mean / weighted-mean time series of a functional array  *)
(* within the regions of a seed map (src/ciftify/bin/ciftify_meants.py).   *)
(*                                                                         *)
(* One run of main() is modelled: the scratch directory is entered, the    *)
(* arrays are loaded, and run_ciftify_meants goes through its stages.      *)
(* Arrays are sequences indexed 1..n (numpy index i is i+1 here).  Numbers *)
(* written to the output are exact rationals [num, den] in lowest terms,   *)
(* with NaN == [num |-> 0, den |-> 0]; the inputs are small integers, for  *)
(* which numpy's sums are exact.                                           *)
(*                                                                         *)
(* Command-line arguments that a stage reads (--weighted, --roi-label,     *)
(* --outputlabels) are drawn by the action that first reads them: docopt   *)
(* fixes them once (line 66) and nothing before that stage depends on them.*)
(***************************************************************************)
EXTENDS Integers, Sequences, FiniteSets, TLC

\* Number of samples (voxels/vertices) of the seed map.
NSamples == 2

\* Time series a sample of the functional array can carry: all-zero,
\* constant nonzero (std = 0), zero-mean varying (mean = 0), and two valid
\* ones.
Series == { <<0, 0>>, <<1, 1>>, << -1, 1>>, <<1, 3>>, <<0, 2>> }

\* Values of the seed map: background 0, labels 1 and 2, and -1 (a negative
\* weight of a continuous seed).
SeedVals == { -1, 0, 1, 2 }

\* Values of the brain mask: outside (0 and a negative value) and inside.
MaskVals == { -1, 0, 1 }

\* Values of --roi-label: labels of the seed domain and one that no seed has.
RoiLabels == { 1, 2, 5 }

FileTypes == { "cifti", "gifti", "nifti" }
MaskTypes == FileTypes \cup { "none" }
Hemis == { "L", "R", "none" }

VARIABLES
    pc,             \* position of the run in main / run_ciftify_meants
    tempdir,        \* "none" | "created" | "released"
    outcome,        \* "running", "completed", or the error that ended the run
    mask,           \* --mask was given
    mask_bound,     \* the local mask_data was assigned by the loader
    data,           \* functional array: samples x timepoints
    seed_data,      \* seed array: samples x columns
    mask_data,      \* mask array: samples (x 1)
    mask_indices,   \* valid-sample set (lines 202, 210)
    mode,           \* [kind, label]: the mode arguments, once read (line 214, 219)
    rois,           \* region label list (lines 223, 225)
    rois_bound,     \* the local rois was assigned
    out_data,       \* output matrix (lines 215, 226-232)
    out_bound,      \* the local out_data was assigned
    used,           \* per output row, the samples indexed into data (lines 215, 231)
    warned,         \* the multi-column seed warning was logged
    csv_written,    \* np.savetxt(outputcsv, ...) ran (line 235)
    labels_written  \* np.savetxt(outputlabels, ...) ran (line 237)

vars == << pc, tempdir, outcome, mask, mask_bound, data, seed_data, mask_data,
           mask_indices, mode, rois, rois_bound, out_data, out_bound, used,
           warned, csv_written, labels_written >>

---------------------------------------------------------------------------
(* Arithmetic *)

Abs(x) == IF x < 0 THEN -x ELSE x

RECURSIVE GCD(_, _)
GCD(a, b) == IF b = 0 THEN a ELSE GCD(b, a % b)

NaN == [num |-> 0, den |-> 0]

\* n / d for d # 0, in lowest terms with a positive denominator.
Frac(n, d) ==
    LET g == GCD(Abs(n), Abs(d))
        s == IF d < 0 THEN -1 ELSE 1
    IN  [num |-> (s * n) \div g, den |-> (s * d) \div g]

\* Sum of f[i] over i \in S, f a function on a superset of S.
RECURSIVE SetSum(_, _)
SetSum(S, f) ==
    IF S = {} THEN 0
    ELSE LET i == CHOOSE j \in S : TRUE
         IN  f[i] + SetSum(S \ {i}, f)

\* The elements of a finite set of integers in ascending order.
RECURSIVE SortedSeq(_)
SortedSeq(S) ==
    IF S = {} THEN << >>
    ELSE LET m == CHOOSE x \in S : \A y \in S : x <= y
         IN  << m >> \o SortedSeq(S \ {m})

SeqToSet(s) == { s[i] : i \in 1..Len(s) }

---------------------------------------------------------------------------
(* numpy operations used by run_ciftify_meants *)

\* array.shape[0] and array.shape[1]
shape0(a) == Len(a)
shape1(a) == Len(a[1])

\* np.unique(a): sorted distinct values of all entries of a 2-D array.
np_unique(a) ==
    SortedSeq({ a[i][c] : i \in 1..Len(a), c \in 1..shape1(a) })

\* np.unique(a)[1:]
unique_tail(a) == Tail(np_unique(a))

\* np.mean(data, axis=1)[i]
m_array(d, i) == Frac(SetSum(1..Len(d[i]), d[i]), Len(d[i]))

\* np.std(data, axis=1)[i] squared (population variance): the std is
\* positive exactly when the variance is.
var_array(d, i) ==
    LET T  == Len(d[i])
        s1 == SetSum(1..T, d[i])
        s2 == SetSum(1..T, [t \in 1..T |-> d[i][t] * d[i][t]])
    IN  Frac(T * s2 - s1 * s1, T * T)

\* np.where(std_array >= 0)[0]: the comparison taken non-strict, which
\* keeps constant samples.
std_nonnegative(d) == { i \in 1..Len(d) : var_array(d, i).num >= 0 }

\* np.where(std_array > 0)[0]
std_nonzero(d) == { i \in 1..Len(d) : var_array(d, i).num > 0 }

\* np.where(m_array != 0)[0]
m_nonzero(d) == { i \in 1..Len(d) : m_array(d, i).num # 0 }

\* np.where(mask_data > 0)[0]
mask_idx(m) == { i \in 1..Len(m) : m[i] > 0 }

\* np.multiply(seed_data, mask_data), both samples x 1 of the same length.
np_multiply(s, m) == [ i \in 1..Len(s) |-> << s[i][1] * m[i] >> ]

\* np.where(seed_data == roi)[0]: rows with an entry equal to roi.
where_eq(s, roi) ==
    { i \in 1..Len(s) : \E c \in 1..Len(s[i]) : s[i][c] = roi }

\* np.mean(data[idxx, :], axis=0): NaN in every column for an empty idxx.
np_mean_rows(d, idxx) ==
    [ t \in 1..shape1(d) |->
        IF idxx = {} THEN NaN
        ELSE Frac(SetSum(idxx, [i \in idxx |-> d[i][t]]), Cardinality(idxx)) ]

\* The weights np.ravel(seed_data[mask_indices]) and their sum.
weight_sum(s, sel) == SetSum(sel, [i \in sel |-> s[i][1]])

\* np.average(data[sel, :], axis=0, weights=w) when sum(w) # 0.
np_average_rows(d, s, sel) ==
    [ t \in 1..shape1(d) |->
        Frac(SetSum(sel, [i \in sel |-> d[i][t] * s[i][1]]), weight_sum(s, sel)) ]

---------------------------------------------------------------------------
(* Inputs *)

\* Functional arrays over a set of series: as many samples as the seed, or
\* one fewer.
FuncArraysOf(S) ==
    [1..NSamples -> S] \cup [1..(NSamples - 1) -> S]

\* Seed arrays of NSamples rows over a set of values, with one column or
\* two; the columns of a two-column seed repeat column 0.
SeedArraysOf(V) ==
    { [i \in 1..NSamples |-> << v[i] >>] : v \in [1..NSamples -> V] }
    \cup
    { [i \in 1..NSamples |-> << v[i], v[i] >>] : v \in [1..NSamples -> V] }

\* Mask arrays over a set of values: as many samples as the seed, or one
\* fewer.
MaskArraysOf(V) ==
    [1..NSamples -> V] \cup [1..(NSamples - 1) -> V]

FuncArrays == FuncArraysOf(Series)
SeedArrays == SeedArraysOf(SeedVals)
MaskArrays == MaskArraysOf(MaskVals)

\* The smaller inputs of the specification of the exit paths: every exit of
\* the run is reached with them.
ExitSeries == { <<1, 1>>, <<1, 3>> }
ExitSeedVals == { 0, 1, 2 }
ExitMaskVals == { 0, 1 }

---------------------------------------------------------------------------
(* The scratch directory of main() *)

\* ciftify.utils.TempDir: __enter__ creates the directory, __exit__ removes it.
TempDirEnter == "created"
TempDirExit == "released"

---------------------------------------------------------------------------
(* Loading (lines 83-187): which combinations of file types are loaded *)

\* "exit": a sys.exit of the loader; "ok": all arrays loaded; "no_mask_data":
\* loaded, but a given mask was never read into mask_data (gifti seed with a
\* cifti func and a mask that is not cifti, lines 148-160).
LoadStatus(seed_type, func_type, mask_type, hemi) ==
    CASE seed_type = "cifti" ->
           IF func_type # "cifti" THEN "exit"
           ELSE IF mask_type \notin { "none", "cifti" } THEN "exit"
           ELSE "ok"
      [] seed_type = "gifti" ->
           IF func_type = "gifti"
           THEN IF mask_type \notin { "none", "gifti" } THEN "exit" ELSE "ok"
           ELSE IF func_type = "cifti"
           THEN IF hemi \notin { "L", "R" } THEN "exit"
                ELSE IF mask_type \in { "none", "cifti" } THEN "ok"
                ELSE "no_mask_data"
           ELSE "exit"
      [] OTHER ->
           IF func_type \notin { "nifti", "cifti" } THEN "exit"
           ELSE IF mask_type \notin { "none", "nifti", "cifti" } THEN "exit"
           ELSE "ok"

NoMode == [kind |-> "unread", label |-> 0]

Modes ==
    { [kind |-> "weighted", label |-> 0], [kind |-> "all_labels", label |-> 0] }
    \cup { [kind |-> "single_label", label |-> r] : r \in RoiLabels }

Init ==
    /\ pc = "main"
    /\ tempdir = "none"
    /\ outcome = "running"
    /\ mask = FALSE
    /\ mask_bound = FALSE
    /\ data = << >>
    /\ seed_data = << >>
    /\ mask_data = << >>
    /\ mask_indices = {}
    /\ mode = NoMode
    /\ rois = << >>
    /\ rois_bound = FALSE
    /\ out_data = << >>
    /\ out_bound = FALSE
    /\ used = << >>
    /\ warned = FALSE
    /\ csv_written = FALSE
    /\ labels_written = FALSE

\* main(), line 240: the with statement enters the scratch directory.
MainEnter ==
    /\ pc = "main"
    /\ tempdir' = TempDirEnter
    /\ pc' = "load"
    /\ UNCHANGED << outcome, mask, mask_bound, data, seed_data, mask_data,
                    mask_indices, mode, rois, rois_bound, out_data, out_bound,
                    used, warned, csv_written, labels_written >>

\* Lines 83-187: the file types decide what is loaded or whether the run exits.
LoadFrom(funcs, seeds, masks) ==
    /\ pc = "load"
    /\ \E seed_type \in FileTypes, func_type \in FileTypes,
          mask_type \in MaskTypes, hemi \in Hemis :
         LET st == LoadStatus(seed_type, func_type, mask_type, hemi) IN
         IF st = "exit"
         THEN /\ pc' = "unwind"
              /\ outcome' = "FormatMismatch"
              /\ UNCHANGED << mask, mask_bound, data, seed_data, mask_data >>
         ELSE /\ pc' = "align"
              /\ outcome' = outcome
              /\ mask' = (mask_type # "none")
              /\ mask_bound' = (mask_type # "none" /\ st = "ok")
              /\ data' \in funcs
              /\ seed_data' \in seeds
              /\ IF mask_type # "none" /\ st = "ok"
                 THEN mask_data' \in masks
                 ELSE mask_data' = << >>
    /\ UNCHANGED << tempdir, mask_indices, mode, rois, rois_bound, out_data,
                    out_bound, used, warned, csv_written, labels_written >>

Load == LoadFrom(FuncArrays, SeedArrays, MaskArrays)

\* The same loader over the smaller inputs.
LoadExitInputs ==
    LoadFrom(FuncArraysOf(ExitSeries), SeedArraysOf(ExitSeedVals),
             MaskArraysOf(ExitMaskVals))

\* Lines 190-195: the sample counts of func and seed must agree; a seed with
\* more than one column reaches logger.WARNING(...), which is not a method of
\* a Logger and raises AttributeError.
AlignmentCheck ==
    /\ pc = "align"
    /\ IF shape0(data) # shape0(seed_data)
       THEN /\ pc' = "unwind"
            /\ outcome' = "ShapeMismatch"
       ELSE IF shape1(seed_data) # 1
       THEN /\ pc' = "unwind"
            /\ outcome' = "AttributeError"
       ELSE /\ pc' = "derive"
            /\ outcome' = outcome
    /\ warned' = warned
    /\ UNCHANGED << tempdir, mask, mask_bound, data, seed_data, mask_data,
                    mask_indices, mode, rois, rois_bound, out_data, out_bound,
                    used, csv_written, labels_written >>

\* Lines 197-202: the implicit mask, std > 0 and mean # 0.
DeriveValid ==
    /\ pc = "derive"
    /\ mask_indices' = std_nonzero(data) \cap m_nonzero(data)
    /\ pc' = "reconcile"
    /\ UNCHANGED << tempdir, outcome, mask, mask_bound, data, seed_data,
                    mask_data, mode, rois, rois_bound, out_data, out_bound,
                    used, warned, csv_written, labels_written >>

\* len(np.unique(seed_data)), line 206
n_seeds(s) == Len(np_unique(s))

\* Line 211: the coarse completeness check fails.
CoarseCheckFails(s, m) == Len(np_unique(np_multiply(s, m))) # n_seeds(s)

\* Lines 204-212: intersect with the explicit mask and run the coarse check.
MaskReconcile ==
    /\ pc = "reconcile"
    /\ IF ~mask
       THEN /\ pc' = "aggregate"
            /\ UNCHANGED << outcome, mask_indices >>
       ELSE IF ~mask_bound
       THEN /\ pc' = "unwind"
            /\ outcome' = "UnboundLocalError"
            /\ UNCHANGED mask_indices
       ELSE IF shape0(seed_data) # shape0(mask_data)
       THEN /\ pc' = "unwind"
            /\ outcome' = "ShapeMismatch"
            /\ UNCHANGED mask_indices
       ELSE /\ mask_indices' = mask_indices \cap mask_idx(mask_data)
            /\ IF CoarseCheckFails(seed_data, mask_data)
               THEN /\ pc' = "unwind"
                    /\ outcome' = "RegionFullyMasked"
               ELSE /\ pc' = "aggregate"
                    /\ outcome' = outcome
    /\ UNCHANGED << tempdir, mask, mask_bound, data, seed_data, mask_data,
                    mode, rois, rois_bound, out_data, out_bound, used, warned,
                    csv_written, labels_written >>

\* Lines 219-225: the region label list of a mode, << >> with ok = FALSE when
\* the requested label is rejected.
SelectRegions(s, m) ==
    IF m.kind = "single_label"
    THEN IF m.label \notin SeqToSet(unique_tail(s))
         THEN [ok |-> FALSE, rois |-> << >>]
         ELSE [ok |-> TRUE, rois |-> << m.label >>]
    ELSE [ok |-> TRUE, rois |-> unique_tail(s)]

\* Line 231: idxx of one region.
RegionIdx(s, valid, roi) == valid \cap where_eq(s, roi)

\* Lines 214-232: weighted average, or the mean of every selected region.
Aggregate ==
    /\ pc = "aggregate"
    /\ \E m \in Modes :
         /\ mode' = m
         /\ IF m.kind = "weighted"
            THEN /\ UNCHANGED << rois, rois_bound >>
                 /\ IF shape1(seed_data) # 1
                    THEN /\ pc' = "unwind"
                         /\ outcome' = "ValueError"
                         /\ UNCHANGED << out_data, out_bound, used >>
                    ELSE IF weight_sum(seed_data, mask_indices) = 0
                    THEN /\ pc' = "unwind"
                         /\ outcome' = "ZeroDivisionError"
                         /\ UNCHANGED << out_data, out_bound, used >>
                    ELSE /\ out_data' = << np_average_rows(data, seed_data, mask_indices) >>
                         /\ out_bound' = TRUE
                         /\ used' = << mask_indices >>
                         /\ pc' = "write"
                         /\ outcome' = outcome
            ELSE LET sel == SelectRegions(seed_data, m) IN
                 IF ~sel.ok
                 THEN /\ pc' = "unwind"
                      /\ outcome' = "UnknownRegionLabel"
                      /\ UNCHANGED << rois, rois_bound, out_data, out_bound, used >>
                 ELSE /\ rois' = sel.rois
                      /\ rois_bound' = TRUE
                      /\ used' = [ i \in 1..Len(sel.rois) |->
                                     RegionIdx(seed_data, mask_indices, sel.rois[i]) ]
                      /\ out_data' = [ i \in 1..Len(sel.rois) |->
                                         np_mean_rows(data,
                                           RegionIdx(seed_data, mask_indices, sel.rois[i])) ]
                      /\ out_bound' = TRUE
                      /\ pc' = "write"
                      /\ outcome' = outcome
    /\ UNCHANGED << tempdir, mask, mask_bound, data, seed_data, mask_data,
                    mask_indices, warned, csv_written, labels_written >>

\* Lines 234-237: the csv is written, then the labels if --outputlabels was
\* given; rois is unassigned in weighted mode.
WriteOutputs ==
    /\ pc = "write"
    /\ csv_written' = TRUE
    /\ \E outputlabels \in BOOLEAN :
         IF ~outputlabels
         THEN /\ pc' = "return"
              /\ UNCHANGED << outcome, labels_written >>
         ELSE IF ~rois_bound
         THEN /\ pc' = "unwind"
              /\ outcome' = "UnboundLocalError"
              /\ UNCHANGED labels_written
         ELSE /\ labels_written' = TRUE
              /\ pc' = "return"
              /\ outcome' = outcome
    /\ UNCHANGED << tempdir, mask, mask_bound, data, seed_data, mask_data,
                    mask_indices, mode, rois, rois_bound, out_data, out_bound,
                    used, warned >>

\* main() without the with statement's guarantee: the directory is removed
\* only after a normal return.
MainExitNoCleanupOnAbort ==
    /\ pc \in { "return", "unwind" }
    /\ tempdir' = IF pc = "return" THEN TempDirExit ELSE tempdir
    /\ outcome' = IF pc = "return" THEN "completed" ELSE outcome
    /\ pc' = "done"
    /\ UNCHANGED << mask, mask_bound, data, seed_data, mask_data, mask_indices,
                    mode, rois, rois_bound, out_data, out_bound, used, warned,
                    csv_written, labels_written >>

\* main(), lines 240-244: the with statement leaves the scratch directory on
\* a return and on any exception (SystemExit included); then the process ends.
MainExit ==
    /\ pc \in { "return", "unwind" }
    /\ tempdir' = TempDirExit
    /\ outcome' = IF pc = "return" THEN "completed" ELSE outcome
    /\ pc' = "done"
    /\ UNCHANGED << mask, mask_bound, data, seed_data, mask_data, mask_indices,
                    mode, rois, rois_bound, out_data, out_bound, used, warned,
                    csv_written, labels_written >>

Next ==
    \/ MainEnter
    \/ Load
    \/ AlignmentCheck
    \/ DeriveValid
    \/ MaskReconcile
    \/ Aggregate
    \/ WriteOutputs
    \/ MainExit

Spec == Init /\ [][Next]_vars

NextExit ==
    \/ MainEnter
    \/ LoadExitInputs
    \/ AlignmentCheck
    \/ DeriveValid
    \/ MaskReconcile
    \/ Aggregate
    \/ WriteOutputs
    \/ MainExit

\* The run over the smaller inputs.  The process is sequential and nothing
\* in it waits: a step that can be taken is taken.
FairSpec == Init /\ [][NextExit]_vars /\ WF_vars(NextExit)

---------------------------------------------------------------------------
(* Reference notions of the specification, stated without the operators of  *)
(* the model above.                                                         *)

RECURSIVE SeqSum(_)
SeqSum(s) == IF s = << >> THEN 0 ELSE Head(s) + SeqSum(Tail(s))

Loaded == Len(seed_data) > 0

\* The arrays passed the alignment check and, with a mask, the mask's.
Aligned ==
    /\ Loaded
    /\ Len(data) = Len(seed_data)
    /\ shape1(seed_data) = 1
    /\ mask => (mask_bound /\ Len(mask_data) = Len(seed_data))

\* std > 0 over time: the series is not constant.
Varies(i) == \E t1, t2 \in 1..Len(data[i]) : data[i][t1] # data[i][t2]

\* mean # 0 over time: the series does not sum to zero.
MeanNonzero(i) == SeqSum(data[i]) # 0

\* The reconciled valid-sample set of the specification.
RefValid ==
    { i \in 1..Len(data) :
        Varies(i) /\ MeanNonzero(i) /\ (mask => mask_data[i] > 0) }

\* The distinct nonzero values of the seed map.
NonzeroLabels == { seed_data[i][1] : i \in 1..Len(seed_data) } \ { 0 }

\* The seed map is an integer atlas: no negative value.
LabelSeed == \A i \in 1..Len(seed_data) : seed_data[i][1] >= 0

\* A mask, if any, is binary.
BinaryMask == \A i \in 1..Len(mask_data) : mask_data[i] \in { 0, 1 }

\* Ordinary inputs: an integer atlas and a binary mask.  The claims below
\* that the code breaks are stated for these inputs, which is where they
\* are already broken.
PlainInputs == LabelSeed /\ BinaryMask

\* The valid samples of a region.
RegionSamples(l) == { i \in RefValid : seed_data[i][1] = l }

\* The regions a per-region mode asks for.
Requested(m) == IF m.kind = "single_label" THEN { m.label } ELSE NonzeroLabels

\* The per-region modes the seed map accepts.
PerRegionModes ==
    { m \in Modes : /\ m.kind # "weighted"
                    /\ m.kind = "single_label" => m.label \in NonzeroLabels }

Completed == pc = "done" /\ outcome = "completed"

PerRegion == mode.kind \in { "all_labels", "single_label" }

\* q is the exact quotient n / d (d # 0).
IsQuotient(q, n, d) == q.den # 0 /\ q.num * d = q.den * n

\* Sum over the samples of S of column t of the functional array, weighted
\* by w.
RECURSIVE WeightedColumnSum(_, _, _)
WeightedColumnSum(S, t, w) ==
    IF S = {} THEN 0
    ELSE LET i == CHOOSE j \in S : TRUE
         IN  data[i][t] * w[i] + WeightedColumnSum(S \ {i}, t, w)

\* Sum of the weights w over the samples of S.
RECURSIVE WeightTotal(_, _)
WeightTotal(S, w) ==
    IF S = {} THEN 0
    ELSE LET i == CHOOSE j \in S : TRUE
         IN  w[i] + WeightTotal(S \ {i}, w)

Ones == [ i \in 1..Len(data) |-> 1 ]
SeedWeights == [ i \in 1..Len(seed_data) |-> seed_data[i][1] ]

---------------------------------------------------------------------------
(* Claims *)

\* C1: the run fails with RegionFullyMasked if and only if a requested
\* region has no valid sample: a per-region run never completes with such a
\* region, and a RegionFullyMasked abort happens only when, in the per-region
\* mode of the run, some requested region has no valid sample.
C1_RegionFullyMaskedIff ==
    /\ (Completed /\ PerRegion /\ PlainInputs) =>
           \A l \in Requested(mode) : RegionSamples(l) # {}
    /\ (outcome = "RegionFullyMasked" /\ PlainInputs) =>
           \A m \in PerRegionModes : \E l \in Requested(m) : RegionSamples(l) = {}

\* C2: in all-labels mode the region label list is the ascending list of
\* all distinct nonzero seed values, with one output row per label.
C2_AllLabelsList ==
    (rois_bound /\ mode.kind = "all_labels" /\ PlainInputs) =>
        /\ rois = SortedSeq(NonzeroLabels)
        /\ Len(out_data) = Cardinality(NonzeroLabels)

\* C3: in single-label mode the request is rejected with UnknownRegionLabel
\* exactly when the label is not a distinct nonzero seed value; an accepted
\* label gives the list holding only that label.
C3_SingleLabelAccepted ==
    (mode.kind = "single_label" /\ PlainInputs) =>
        /\ (outcome = "UnknownRegionLabel") <=> (mode.label \notin NonzeroLabels)
        /\ (mode.label \in NonzeroLabels) => (rois_bound /\ rois = << mode.label >>)

\* C4: a completed per-region run has one row per label of the list, and
\* every entry of row i is the arithmetic mean of the functional array over
\* the valid samples that carry label rois[i].
C4_RowIsRegionMean ==
    (Completed /\ PerRegion /\ PlainInputs) =>
        /\ Len(out_data) = Len(rois)
        /\ \A i \in 1..Len(rois) : \A t \in 1..shape1(data) :
               IsQuotient(out_data[i][t],
                          WeightedColumnSum(RegionSamples(rois[i]), t, Ones),
                          Cardinality(RegionSamples(rois[i])))

\* C5: the samples aggregated are exactly those with std > 0, mean # 0 and,
\* with a mask, mask > 0: in weighted mode the row is the weighted average
\* over that set, in per-region mode each row is aggregated over the
\* samples of that set carrying the row's label, and no other sample
\* contributes.
C5_AggregatedSetIsValidSet ==
    out_bound =>
        /\ Len(used) = Len(out_data)
        /\ (mode.kind = "weighted") =>
               /\ used = << RefValid >>
               /\ \A t \in 1..shape1(data) :
                      IsQuotient(out_data[1][t],
                                 WeightedColumnSum(RefValid, t, SeedWeights),
                                 WeightTotal(RefValid, SeedWeights))
        /\ PerRegion =>
               \A i \in 1..Len(used) :
                   /\ used[i] = RegionSamples(rois[i])
                   /\ \A t \in 1..shape1(data) :
                          IF RegionSamples(rois[i]) = {}
                          THEN out_data[i][t] = NaN
                          ELSE IsQuotient(out_data[i][t],
                                   WeightedColumnSum(RegionSamples(rois[i]), t, Ones),
                                   Cardinality(RegionSamples(rois[i])))

\* C5 witness: a run with a mask completed, a sample inside the mask was left
\* out as degenerate, and a row was aggregated over the remaining samples.
C5_Witness ==
    /\ Completed
    /\ mask
    /\ \E k \in 1..Len(used) : used[k] # {}
    /\ \E i \in 1..Len(data) :
           /\ mask_data[i] > 0
           /\ seed_data[i][1] # 0
           /\ ~(Varies(i) /\ MeanNonzero(i))
           /\ \A k \in 1..Len(used) : i \notin used[k]

\* C6: no run writes the output matrix and then terminates abnormally, and
\* weighted mode produces no region label list.
C6_NoPartialOutput ==
    PlainInputs =>
        /\ csv_written => outcome \in { "running", "completed" }
        /\ (mode.kind = "weighted") => ~labels_written

\* C7: in weighted mode, weights over the valid set that contain a negative
\* weight, or are all zero (or the set is empty), end the run with a fatal
\* error and no output row.
C7_InvalidWeightsRejected ==
    ( /\ mode.kind = "weighted"
      /\ BinaryMask
      /\ \/ \E i \in RefValid : seed_data[i][1] < 0
         \/ \A i \in RefValid : seed_data[i][1] = 0 ) =>
        /\ ~out_bound
        /\ outcome \notin { "running", "completed" }

\* The distinct nonzero values of the product seed x mask.
NonzeroProduct == { seed_data[i][1] * mask_data[i] : i \in 1..Len(seed_data) } \ { 0 }

\* C8: with a mask, the coarse completeness check aborts the run exactly
\* when the number of distinct nonzero seed labels differs from the number
\* of distinct nonzero values of seed x mask.
C8_CoarseCheckIff ==
    /\ (pc = "aggregate" /\ mask /\ PlainInputs) =>
           Cardinality(NonzeroLabels) = Cardinality(NonzeroProduct)
    /\ (outcome = "RegionFullyMasked" /\ PlainInputs) =>
           Cardinality(NonzeroLabels) # Cardinality(NonzeroProduct)

\* C9: a seed map with more than one column only causes a warning: the run
\* is not aborted by it.
C9_MultiColumnSeedWarns ==
    (Loaded /\ Len(data) = Len(seed_data) /\ shape1(seed_data) # 1
        /\ PlainInputs /\ pc \notin { "load", "align" }) =>
        /\ warned
        /\ pc \notin { "unwind", "done" } \/ outcome # "AttributeError"

\* C10: on every exit path the process ends with the scratch directory
\* released, and nothing runs after the release.
C10_ScratchReleased ==
    /\ <>[](pc = "done" /\ tempdir = "released")
    /\ [][tempdir = "released" => FALSE]_vars

\* C10 witness: a run that ended in a fatal abort, with the directory released.
C10_Witness ==
    /\ pc = "done"
    /\ tempdir = "released"
    /\ outcome = "RegionFullyMasked"

==========================================================================
